---- MODULE Spec2Model ----
(***************************************************************************)
(* A model of the mathengine pipeline: Lexer::tokenize, Parser::parse and  *)
(* evaluate, with the unit framework they rest on.                         *)
(*                                                                         *)
(* f64 values are modelled as exact rationals [n, d] in lowest terms with  *)
(* d > 0.  A result that leaves the exactly modelled range (a non-integer  *)
(* exponent, an overflow of the modelled integers) is the value NaR.       *)
(* Source text is a string; its characters are read with SubSeq.           *)
(***************************************************************************)
EXTENDS Integers, Sequences, FiniteSets, TLC

VARIABLES
    source,   \* the input string handed to Lexer::new
    tokens,   \* Parser.tokens: the lexer's output vector
    pos,      \* Parser.pos: the parser's cursor
    expr,     \* the Expression tree produced by Parser::parse
    result,   \* what the running entry point has returned, or NoResult
    pc        \* the position of the caller in its pipeline

vars == <<source, tokens, pos, expr, result, pc>>

(***************************************************************************)
(* Bounds of the model.                                                    *)
(***************************************************************************)
MaxWords == 3      \* words concatenated into one generated source string
MaxTokens == 3     \* tokens in one freely generated token vector
MaxOps == 3        \* operators in one generated operator chain
MaxLit == 2        \* largest numeric literal of generated tokens and trees
MaxExponent == 40  \* exponents beyond it leave the exactly modelled range

(***************************************************************************)
(* f64 arithmetic on the exactly modelled range.                           *)
(***************************************************************************)
\* the largest integer the model computes with
IntLimit == (2^30 - 1) + 2^30

Abs(x) == IF x < 0 THEN -x ELSE x

RECURSIVE GCD(_, _)
GCD(a, b) == IF b = 0 THEN a ELSE GCD(b, a % b)

NaR == [n |-> 0, d |-> 0]

IsExact(r) == r.d # 0

Fits(a, b) == a = 0 \/ b = 0 \/ Abs(a) <= IntLimit \div Abs(b)

\* n / d with the common factor g (signed like d) taken out
Reduced(n, d, g) == [n |-> n \div g, d |-> d \div g]

Rat(n, d) ==
    IF d = 0 THEN NaR
    ELSE Reduced(n, d, (IF d < 0 THEN -1 ELSE 1) * GCD(Abs(n), Abs(d)))

FromInt(k) == [n |-> k, d |-> 1]

Zero == FromInt(0)

\* r.0 == 0.0
IsZero(r) == IsExact(r) /\ r.n = 0

\* (an / ad) * (bn / bd), the four already reduced crosswise
Product(an, ad, bn, bd) ==
    IF Fits(an, bn) /\ Fits(ad, bd) THEN [n |-> an * bn, d |-> ad * bd] ELSE NaR

CrossReduced(a, b, g1, g2) == Product(a.n \div g1, a.d \div g2, b.n \div g2, b.d \div g1)

RMul(a, b) ==
    IF ~IsExact(a) \/ ~IsExact(b) THEN NaR
    ELSE CrossReduced(a, b, GCD(Abs(a.n), b.d), GCD(Abs(b.n), a.d))

RNeg(a) == IF IsExact(a) THEN [n |-> -a.n, d |-> a.d] ELSE NaR

\* a + b over the denominator a.d * bq, where aq = a.d / g and bq = b.d / g
SumOver(a, b, aq, bq) ==
    IF Fits(a.n, bq) /\ Fits(b.n, aq) /\ Fits(a.d, bq)
       /\ Abs(a.n * bq) <= IntLimit - Abs(b.n * aq)
    THEN Rat(a.n * bq + b.n * aq, a.d * bq)
    ELSE NaR

SumWith(a, b, g) == SumOver(a, b, a.d \div g, b.d \div g)

RAdd(a, b) == IF ~IsExact(a) \/ ~IsExact(b) THEN NaR ELSE SumWith(a, b, GCD(a.d, b.d))

RSub(a, b) == RAdd(a, RNeg(b))

\* IEEE division: a zero divisor gives an infinity or a NaN, not a rational
Reciprocal(b) == IF b.n < 0 THEN [n |-> -b.d, d |-> -b.n] ELSE [n |-> b.d, d |-> b.n]

RDiv(a, b) ==
    IF ~IsExact(a) \/ ~IsExact(b) \/ b.n = 0 THEN NaR ELSE RMul(a, Reciprocal(b))

RECURSIVE RPowNat(_, _)
RPowNat(a, k) == IF k = 0 THEN FromInt(1) ELSE RMul(a, RPowNat(a, k - 1))


\* f64::powf on the exactly modelled range: integer exponents only
RPow(a, b) ==
    IF ~IsExact(a) \/ ~IsExact(b) \/ b.d # 1 THEN NaR
    ELSE IF b.n = 0 THEN FromInt(1)
    ELSE IF a.n = 0 THEN (IF b.n > 0 THEN Zero ELSE NaR)
    ELSE IF a = FromInt(1) THEN a
    ELSE IF Abs(b.n) > MaxExponent THEN NaR
    ELSE IF b.n > 0 THEN RPowNat(a, b.n)
    ELSE RDiv(FromInt(1), RPowNat(a, -b.n))

(***************************************************************************)
(* Characters.                                                             *)
(***************************************************************************)
CharAt(s, i) == SubSeq(s, i, i)

Digits == "0123456789"
UpperCase == "ABCDEFGHIJKLMNOPQRSTUVWXYZ"
LowerCase == "abcdefghijklmnopqrstuvwxyz"

CharsOf(s) == {CharAt(s, k) : k \in 1..Len(s)}

DigitChars == CharsOf(Digits)
UpperChars == CharsOf(UpperCase)
LowerChars == CharsOf(LowerCase)
PunctuationChars == CharsOf("+-*/^()")

IndexIn(c, s) == CHOOSE k \in 1..Len(s) : CharAt(s, k) = c

is_ascii_digit(c) == c \in DigitChars
is_alphabetic(c) == c \in UpperChars \/ c \in LowerChars
is_alphanumeric(c) == is_alphabetic(c) \/ is_ascii_digit(c)
is_whitespace(c) == c = " "

DigitValue(c) == IndexIn(c, Digits) - 1

LowerChar(c) == IF c \in UpperChars THEN CharAt(LowerCase, IndexIn(c, UpperCase)) ELSE c
UpperChar(c) == IF c \in LowerChars THEN CharAt(UpperCase, IndexIn(c, LowerCase)) ELSE c

RECURSIVE to_lowercase(_)
to_lowercase(s) == IF s = "" THEN "" ELSE LowerChar(CharAt(s, 1)) \o to_lowercase(SubSeq(s, 2, Len(s)))

RECURSIVE to_uppercase(_)
to_uppercase(s) == IF s = "" THEN "" ELSE UpperChar(CharAt(s, 1)) \o to_uppercase(SubSeq(s, 2, Len(s)))

\* str::trim().is_empty()
RECURSIVE IsBlank(_)
IsBlank(s) == s = "" \/ (is_whitespace(CharAt(s, 1)) /\ IsBlank(SubSeq(s, 2, Len(s))))

(***************************************************************************)
(* Unit families: mathengine-units.                                        *)
(***************************************************************************)
UnitErr == "UnitError::UnknownUnit"

LengthUnits == {"Meter", "Centimeter", "Millimeter", "Kilometer", "Foot", "Inch", "Yard", "Mile"}
TemperatureUnits == {"Kelvin", "Celcius", "Farenheit"}

\* the match of LengthDimension::parse_unit on the lowercased spelling
Length_match(l) ==
    IF l \in {"m", "meter", "meters"} THEN "Meter"
    ELSE IF l \in {"cm", "centimeter", "centimeters"} THEN "Centimeter"
    ELSE IF l \in {"mm", "millimeter", "millimeters"} THEN "Millimeter"
    ELSE IF l \in {"km", "kilometer", "kilometers"} THEN "Kilometer"
    ELSE IF l \in {"ft", "foot", "feet"} THEN "Foot"
    ELSE IF l \in {"in", "inch", "inches"} THEN "Inch"
    ELSE IF l \in {"yd", "yard", "yards"} THEN "Yard"
    ELSE IF l \in {"mi", "mile", "miles"} THEN "Mile"
    ELSE UnitErr

Length_parse_unit(s) == Length_match(to_lowercase(s))

\* the match of TemperatureDimension::parse_unit on the lowercased spelling
Temperature_match(l) ==
    IF l \in {"c", "celcius"} THEN "Celcius"
    ELSE IF l \in {"f", "farenheit"} THEN "Farenheit"
    ELSE IF l \in {"k", "kelvin"} THEN "Kelvin"
    ELSE UnitErr

Temperature_parse_unit(s) == Temperature_match(to_lowercase(s))

Length_canonical_string(u) ==
    CASE u = "Meter" -> "m"
      [] u = "Centimeter" -> "cm"
      [] u = "Millimeter" -> "mm"
      [] u = "Kilometer" -> "km"
      [] u = "Foot" -> "ft"
      [] u = "Inch" -> "in"
      [] u = "Yard" -> "yd"
      [] u = "Mile" -> "mi"

\* canonical_string naming Celcius by a word parse_unit does not accept
Temperature_canonical_string_long(u) ==
    CASE u = "Kelvin" -> "K"
      [] u = "Celcius" -> "celsius"
      [] u = "Farenheit" -> "F"

Temperature_canonical_string(u) ==
    CASE u = "Kelvin" -> "K"
      [] u = "Celcius" -> "C"
      [] u = "Farenheit" -> "F"

to_meters(u, v) ==
    CASE u = "Meter" -> v
      [] u = "Centimeter" -> RDiv(v, FromInt(100))
      [] u = "Millimeter" -> RDiv(v, FromInt(1000))
      [] u = "Kilometer" -> RMul(v, FromInt(1000))
      [] u = "Foot" -> RMul(v, Rat(3048, 10000))
      [] u = "Inch" -> RMul(v, Rat(254, 10000))
      [] u = "Yard" -> RMul(v, Rat(9144, 10000))
      [] u = "Mile" -> RMul(v, Rat(1609344, 1000))

\* from_meters with the mile rounded to whole meters
from_meters_rounded(m, u) ==
    CASE u = "Meter" -> m
      [] u = "Centimeter" -> RMul(m, FromInt(100))
      [] u = "Millimeter" -> RMul(m, FromInt(1000))
      [] u = "Kilometer" -> RDiv(m, FromInt(1000))
      [] u = "Foot" -> RDiv(m, Rat(3048, 10000))
      [] u = "Inch" -> RDiv(m, Rat(254, 10000))
      [] u = "Yard" -> RDiv(m, Rat(9144, 10000))
      [] u = "Mile" -> RDiv(m, FromInt(1609))

from_meters(m, u) ==
    CASE u = "Meter" -> m
      [] u = "Centimeter" -> RMul(m, FromInt(100))
      [] u = "Millimeter" -> RMul(m, FromInt(1000))
      [] u = "Kilometer" -> RDiv(m, FromInt(1000))
      [] u = "Foot" -> RDiv(m, Rat(3048, 10000))
      [] u = "Inch" -> RDiv(m, Rat(254, 10000))
      [] u = "Yard" -> RDiv(m, Rat(9144, 10000))
      [] u = "Mile" -> RDiv(m, Rat(1609344, 1000))

NoDirect == [some |-> FALSE]
Direct(v) == [some |-> TRUE, value |-> v]

\* convert_direct counting 5000 feet to the mile
Length_convert_direct_short_mile(from, to, v) ==
    CASE from = "Inch" /\ to = "Foot" -> Direct(RDiv(v, FromInt(12)))
      [] from = "Foot" /\ to = "Inch" -> Direct(RMul(v, FromInt(12)))
      [] from = "Foot" /\ to = "Yard" -> Direct(RDiv(v, FromInt(3)))
      [] from = "Yard" /\ to = "Foot" -> Direct(RMul(v, FromInt(3)))
      [] from = "Inch" /\ to = "Yard" -> Direct(RDiv(v, FromInt(36)))
      [] from = "Yard" /\ to = "Inch" -> Direct(RMul(v, FromInt(36)))
      [] from = "Foot" /\ to = "Mile" -> Direct(RDiv(v, FromInt(5000)))
      [] from = "Mile" /\ to = "Foot" -> Direct(RMul(v, FromInt(5000)))
      [] from = "Inch" /\ to = "Mile" -> Direct(RDiv(v, FromInt(63360)))
      [] from = "Mile" /\ to = "Inch" -> Direct(RMul(v, FromInt(63360)))
      [] from = "Yard" /\ to = "Mile" -> Direct(RDiv(v, FromInt(1760)))
      [] from = "Mile" /\ to = "Yard" -> Direct(RMul(v, FromInt(1760)))
      [] OTHER -> NoDirect

Length_convert_direct(from, to, v) ==
    CASE from = "Inch" /\ to = "Foot" -> Direct(RDiv(v, FromInt(12)))
      [] from = "Foot" /\ to = "Inch" -> Direct(RMul(v, FromInt(12)))
      [] from = "Foot" /\ to = "Yard" -> Direct(RDiv(v, FromInt(3)))
      [] from = "Yard" /\ to = "Foot" -> Direct(RMul(v, FromInt(3)))
      [] from = "Inch" /\ to = "Yard" -> Direct(RDiv(v, FromInt(36)))
      [] from = "Yard" /\ to = "Inch" -> Direct(RMul(v, FromInt(36)))
      [] from = "Foot" /\ to = "Mile" -> Direct(RDiv(v, FromInt(5280)))
      [] from = "Mile" /\ to = "Foot" -> Direct(RMul(v, FromInt(5280)))
      [] from = "Inch" /\ to = "Mile" -> Direct(RDiv(v, FromInt(63360)))
      [] from = "Mile" /\ to = "Inch" -> Direct(RMul(v, FromInt(63360)))
      [] from = "Yard" /\ to = "Mile" -> Direct(RDiv(v, FromInt(1760)))
      [] from = "Mile" /\ to = "Yard" -> Direct(RMul(v, FromInt(1760)))
      [] OTHER -> NoDirect

unwrap_or(opt, default) == IF opt.some THEN opt.value ELSE default

\* LengthDimension::convert_to, on the value
Length_convert_to(from, v, target) ==
    IF from = target THEN v
    ELSE unwrap_or(Length_convert_direct(from, target, v),
                   from_meters(to_meters(from, v), target))

KelvinOffset == Rat(27315, 100)

to_kelvin(u, v) ==
    CASE u = "Kelvin" -> v
      [] u = "Celcius" -> RAdd(v, KelvinOffset)
      [] u = "Farenheit" ->
            RAdd(RDiv(RMul(RSub(v, FromInt(32)), FromInt(5)), FromInt(9)), KelvinOffset)

from_kelvin(k, u) ==
    CASE u = "Kelvin" -> k
      [] u = "Celcius" -> RSub(k, KelvinOffset)
      [] u = "Farenheit" ->
            RAdd(RDiv(RMul(RSub(k, KelvinOffset), FromInt(9)), FromInt(5)), FromInt(32))

\* TemperatureDimension::convert_to, on the value
Temperature_convert_to(from, v, target) ==
    IF from = target THEN v ELSE from_kelvin(to_kelvin(from, v), target)

(***************************************************************************)
(* DimensionType and Unit: mathengine-parser/src/types/dimensions.rs.      *)
(* The impls of UnitType and UnitConversion for LengthUnit and              *)
(* TemperatureUnit are not among the sources: U::parse is taken to be the  *)
(* family's parse_unit table (Dimension::parse_unit is U::parse), and the  *)
(* conversions the family's to/from base unit formulas.                    *)
(***************************************************************************)
DimensionType_from_unit(unit) ==
    IF Length_parse_unit(unit) # UnitErr THEN "Length"
    ELSE IF Temperature_parse_unit(unit) # UnitErr THEN "Temperature"
    ELSE "Unknown"

\* a Unit is the family's unit name; its family is recovered from the name
Unit_dimension_type(u) == IF u \in LengthUnits THEN "Length" ELSE "Temperature"

Unit_canonical_string(u) ==
    IF u \in LengthUnits THEN Length_canonical_string(u) ELSE Temperature_canonical_string(u)

parse_unit_str(dim, s) ==
    CASE dim = "Length" -> Length_parse_unit(s)
      [] dim = "Temperature" -> Temperature_parse_unit(s)
      [] dim = "Unknown" -> UnitErr

base_unit_string(dim) ==
    CASE dim = "Length" -> Length_canonical_string("Meter")
      [] dim = "Temperature" -> Temperature_canonical_string("Kelvin")
      [] dim = "Unknown" -> "unknown"

\* Dimension::convert_value under DimensionType::convert_value's family match
convert_value(dim, from, to, v) ==
    IF dim = "Length" /\ from \in LengthUnits /\ to \in LengthUnits
    THEN Direct(Length_convert_to(from, v, to))
    ELSE IF dim = "Temperature" /\ from \in TemperatureUnits /\ to \in TemperatureUnits
    THEN Direct(Temperature_convert_to(from, v, to))
    ELSE NoDirect

to_base_value(dim, u, v) ==
    IF dim = "Length" /\ u \in LengthUnits THEN Direct(to_meters(u, v))
    ELSE IF dim = "Temperature" /\ u \in TemperatureUnits THEN Direct(to_kelvin(u, v))
    ELSE NoDirect

(***************************************************************************)
(* UnitValue: mathengine-parser/src/types/unit_value.rs.                   *)
(***************************************************************************)
UnitValue_new(v, unit) ==
    [value |-> v, unit |-> unit, dimension |-> DimensionType_from_unit(unit)]

\* canonical_unit_name once the unit string is parsed (u is a Unit or UnitErr)
canonical_of(uv, u) ==
    IF u # UnitErr /\ Unit_dimension_type(u) = uv.dimension
    THEN Unit_canonical_string(u)
    ELSE uv.unit

canonical_unit_name(uv) == canonical_of(uv, parse_unit_str(uv.dimension, uv.unit))

to_base_of(uv, u) ==
    IF u = UnitErr THEN uv.value
    ELSE unwrap_or(to_base_value(uv.dimension, u, uv.value), uv.value)

UnitValue_to_base_value(uv) == to_base_of(uv, parse_unit_str(uv.dimension, uv.unit))

ConvOk(uv) == [ok |-> TRUE, value |-> uv]
ConvErr(e) == [ok |-> FALSE, err |-> e]

ok_or_failed(nv, target_unit) ==
    IF nv.some THEN ConvOk(UnitValue_new(nv.value, target_unit)) ELSE ConvErr("Failed")

\* convert_to once both unit strings are parsed
convert_parsed(uv, target_unit, from_unit, to_unit) ==
    IF from_unit = UnitErr \/ to_unit = UnitErr THEN ConvErr("UnknownUnit")
    ELSE ok_or_failed(convert_value(uv.dimension, from_unit, to_unit, uv.value), target_unit)

cross_dimension(uv, target_dimension) ==
    target_dimension # uv.dimension \/ target_dimension = "Unknown"

UnitValue_convert_to(uv, target_unit) ==
    IF cross_dimension(uv, DimensionType_from_unit(target_unit))
    THEN ConvErr("CrossDimension")
    ELSE convert_parsed(uv, target_unit, parse_unit_str(uv.dimension, uv.unit),
                        parse_unit_str(uv.dimension, target_unit))

\* the unwrap_or_else of in_base_units
converted_or_fallback(c, uv, base_unit_str) ==
    IF c.ok THEN c.value ELSE UnitValue_new(UnitValue_to_base_value(uv), base_unit_str)

in_base_units_as(uv, base_unit_str) ==
    IF canonical_unit_name(uv) = base_unit_str
    THEN UnitValue_new(uv.value, base_unit_str)
    ELSE converted_or_fallback(UnitValue_convert_to(uv, base_unit_str), uv, base_unit_str)

\* in_base_units returning the value as it is
not_in_base_units(uv) == uv

in_base_units(uv) == in_base_units_as(uv, base_unit_string(uv.dimension))

same_dimension_as(a, b) == a.dimension = b.dimension /\ a.dimension # "Unknown"

add_bases(left_base, right_base) ==
    UnitValue_new(RAdd(left_base.value, right_base.value), left_base.unit)

sub_bases(left_base, right_base) ==
    UnitValue_new(RSub(left_base.value, right_base.value), left_base.unit)

\* impl Add for UnitValue adding the values as they are, in the left unit
UnitValue_add_raw(l, r) ==
    IF ~same_dimension_as(l, r) THEN l ELSE UnitValue_new(RAdd(l.value, r.value), l.unit)

\* impl Add for UnitValue
UnitValue_add(l, r) ==
    IF ~same_dimension_as(l, r) THEN l ELSE add_bases(in_base_units(l), in_base_units(r))

\* impl Sub for UnitValue
UnitValue_sub(l, r) ==
    IF ~same_dimension_as(l, r) THEN l ELSE sub_bases(in_base_units(l), in_base_units(r))

\* the arithmetic of a UnitValue with a Number losing the dimension tag
WithValue_untagged(uv, v) == [value |-> v, unit |-> uv.unit, dimension |-> "Unknown"]

\* the arithmetic of a UnitValue with a Number keeps the unit and the dimension
WithValue(uv, v) == [value |-> v, unit |-> uv.unit, dimension |-> uv.dimension]

(***************************************************************************)
(* Lexer: mathengine-lexer/src/lib.rs.                                     *)
(***************************************************************************)
Operations == {"Add", "Subtract", "Divide", "Multiply", "Power", "Convert"}

TOperation(op) == [type |-> "Operation", op |-> op]
TNumber(v) == [type |-> "Number", value |-> v]
TUnitValue(v, unit) == [type |-> "UnitValue", value |-> v, unit |-> unit]
TUnit(unit) == [type |-> "Unit", unit |-> unit]
Lparen == [type |-> "Lparen"]
Rparen == [type |-> "Rparen"]

LexOk(toks) == [ok |-> TRUE, tokens |-> toks]
LexErr(e) == [ok |-> FALSE, err |-> e]

EmptyInput == [kind |-> "EmptyInput"]
UnexpectedCharacter(ch, position) ==
    [kind |-> "UnexpectedCharacter", char |-> ch, position |-> position]
InvalidNumber(input, position) ==
    [kind |-> "InvalidNumber", input |-> input, position |-> position]

\* lex_number: the index after the run of digits and decimal points from i
RECURSIVE lex_number(_, _)
lex_number(src, i) ==
    IF i <= Len(src) /\ (is_ascii_digit(CharAt(src, i)) \/ CharAt(src, i) = ".")
    THEN lex_number(src, i + 1) ELSE i

\* lex_identifier: the index after the run of alphanumeric characters from i
RECURSIVE lex_identifier(_, _)
lex_identifier(src, i) ==
    IF i <= Len(src) /\ is_alphanumeric(CharAt(src, i))
    THEN lex_identifier(src, i + 1) ELSE i

\* a number arm that leaves the whitespace after the number to the main loop
skip_whitespace_none(src, i) == i

\* the loop that skips whitespace after a number
RECURSIVE skip_whitespace(_, _)
skip_whitespace(src, i) ==
    IF i <= Len(src) /\ is_whitespace(CharAt(src, i))
    THEN skip_whitespace(src, i + 1) ELSE i

RECURSIVE CountDots(_)
CountDots(s) ==
    IF s = "" THEN 0
    ELSE (IF CharAt(s, 1) = "." THEN 1 ELSE 0) + CountDots(SubSeq(s, 2, Len(s)))

\* the digits of s read as a decimal: [n, d] with the value n / d
RECURSIVE DecimalOf(_, _, _, _)
DecimalOf(s, n, d, seen) ==
    IF s = "" THEN Rat(n, d)
    ELSE LET c == CharAt(s, 1)
             rest == SubSeq(s, 2, Len(s))
         IN  IF c = "." THEN DecimalOf(rest, n, d, TRUE)
             ELSE DecimalOf(rest, n * 10 + DigitValue(c), IF seen THEN d * 10 ELSE d, seen)

\* str::parse::<f64> on a run of digits and points that starts with a digit
parse_f64(num) ==
    IF CountDots(num) <= 1 THEN [ok |-> TRUE, value |-> DecimalOf(num, 0, 1, FALSE)]
    ELSE [ok |-> FALSE]

SingleCharToken(ch) ==
    CASE ch = "+" -> TOperation("Add")
      [] ch = "-" -> TOperation("Subtract")
      [] ch = "*" -> TOperation("Multiply")
      [] ch = "/" -> TOperation("Divide")
      [] ch = "^" -> TOperation("Power")
      [] ch = "(" -> Lparen
      [] ch = ")" -> Rparen

IdentToken(ident) ==
    LET v == to_lowercase(ident) IN
    IF v = "to" THEN TOperation("Convert") ELSE TUnit(v)

\* the while loop of Lexer::tokenize: i is the iterator, position the counter
RECURSIVE LexLoop(_, _, _, _)
LexLoop(src, i, position, toks) ==
    IF i > Len(src) THEN LexOk(toks)
    ELSE LET ch == CharAt(src, i) IN
    IF is_ascii_digit(ch) THEN
        LET start_pos == position
            e == lex_number(src, i + 1)
            num == SubSeq(src, i, e - 1)
            w == skip_whitespace(src, e)
            p2 == position + Len(num) + (w - e)
            value == parse_f64(num)
        IN  IF w <= Len(src) /\ is_alphabetic(CharAt(src, w))
            THEN LET ue == lex_identifier(src, w + 1)
                     unit == SubSeq(src, w, ue - 1)
                 IN  IF ~value.ok THEN LexErr(InvalidNumber(num, start_pos))
                     ELSE LexLoop(src, ue, p2 + Len(unit),
                                  Append(toks, TUnitValue(value.value, unit)))
            ELSE IF ~value.ok THEN LexErr(InvalidNumber(num, start_pos))
                 ELSE LexLoop(src, w, p2, Append(toks, TNumber(value.value)))
    ELSE IF is_alphabetic(ch) THEN
        LET e == lex_identifier(src, i + 1)
            ident == SubSeq(src, i, e - 1)
        IN  LexLoop(src, e, position + Len(ident), Append(toks, IdentToken(ident)))
    ELSE IF ch \in PunctuationChars THEN
        LexLoop(src, i + 1, position + 1, Append(toks, SingleCharToken(ch)))
    ELSE IF is_whitespace(ch) THEN LexLoop(src, i + 1, position + 1, toks)
    ELSE LexErr(UnexpectedCharacter(ch, position))

\* tokenize returning no tokens for a blank source
tokenize_blank_ok(src) ==
    IF IsBlank(src) THEN LexOk(<<>>) ELSE LexLoop(src, 1, 0, <<>>)

\* tokenize testing the source for emptiness without trimming it
tokenize_untrimmed(src) ==
    IF src = "" THEN LexErr(EmptyInput) ELSE LexLoop(src, 1, 0, <<>>)

tokenize(src) ==
    IF IsBlank(src) THEN LexErr(EmptyInput) ELSE LexLoop(src, 1, 0, <<>>)

(***************************************************************************)
(* Expression: mathengine-parser/src/ast.rs.                               *)
(***************************************************************************)
ENumber(v) == [type |-> "Number", value |-> v]
EUnitValue(v, unit) == [type |-> "UnitValue", value |-> v, unit |-> unit]
EUnit(unit) == [type |-> "Unit", unit |-> unit]
Binary(op, left, right) == [type |-> "Binary", op |-> op, left |-> left, right |-> right]
Unary(op, operand) == [type |-> "Unary", op |-> op, operand |-> operand]

(***************************************************************************)
(* Parser: mathengine-parser/src/parser.rs.  A cursor p is Parser.pos: the *)
(* number of tokens consumed; the current token is toks[p + 1].            *)
(***************************************************************************)
POk(e, p) == [ok |-> TRUE, expr |-> e, pos |-> p]
PErr(e, p) == [ok |-> FALSE, err |-> e, pos |-> p]

EmptyTokenStream == [kind |-> "EmptyTokenStream"]
UnexpectedToken(expected, found, position) ==
    [kind |-> "UnexpectedToken", expected |-> expected, found |-> found,
     position |-> position]
UnexpectedEndOfInput(expected) == [kind |-> "UnexpectedEndOfInput", expected |-> expected]

get_precedence(op) ==
    CASE op \in {"Add", "Subtract"} -> 1
      [] op \in {"Multiply", "Divide"} -> 2
      [] op = "Power" -> 3
      [] op = "Convert" -> 5

\* is_right_associative as its comment has it: every operation left-associative
never_right_associative(op) == FALSE

is_right_associative(op) == op = "Power"

right_precedence(op) ==
    IF is_right_associative(op) THEN get_precedence(op) ELSE get_precedence(op) + 1

canonical_in(dim, unit) ==
    CASE dim = "Length" -> Length_canonical_string(Length_parse_unit(unit))
      [] dim = "Temperature" -> Temperature_canonical_string(Temperature_parse_unit(unit))
      [] dim = "Unknown" -> "unknown"

canonicalize_unit(unit) == canonical_in(DimensionType_from_unit(unit), unit)

RECURSIVE parse_expression(_, _, _)
RECURSIVE parse_primary(_, _)
RECURSIVE parse_operators(_, _, _, _)

\* parse_primary taking a power expression as the operand of unary minus
parse_primary_minus_below_power(toks, p) ==
    IF p >= Len(toks) THEN PErr(UnexpectedEndOfInput("expression"), p)
    ELSE LET t == toks[p + 1] IN
    IF t.type = "Number" THEN POk(ENumber(t.value), p + 1)
    ELSE IF t.type = "UnitValue"
    THEN POk(EUnitValue(t.value, canonicalize_unit(t.unit)), p + 1)
    ELSE IF t.type = "Unit" THEN POk(EUnit(t.unit), p + 1)
    ELSE IF t.type = "Lparen" THEN
        LET r == parse_expression(toks, p + 1, 0) IN
        IF ~r.ok THEN r
        ELSE IF r.pos >= Len(toks) THEN PErr(UnexpectedEndOfInput("')'"), r.pos)
        ELSE IF toks[r.pos + 1].type = "Rparen" THEN POk(r.expr, r.pos + 1)
        ELSE PErr(UnexpectedToken("')'", toks[r.pos + 1], (r.pos + 1) - 1), r.pos + 1)
    ELSE IF t.type = "Operation" /\ t.op = "Subtract" THEN
        LET r == parse_expression(toks, p + 1, get_precedence("Power")) IN
        IF ~r.ok THEN r ELSE POk(Unary("Subtract", r.expr), r.pos)
    ELSE PErr(UnexpectedToken("number, unit value, '(', or unary operator", t, p), p + 1)

parse_primary(toks, p) ==
    IF p >= Len(toks) THEN PErr(UnexpectedEndOfInput("expression"), p)
    ELSE LET t == toks[p + 1] IN
    IF t.type = "Number" THEN POk(ENumber(t.value), p + 1)
    ELSE IF t.type = "UnitValue"
    THEN POk(EUnitValue(t.value, canonicalize_unit(t.unit)), p + 1)
    ELSE IF t.type = "Unit" THEN POk(EUnit(t.unit), p + 1)
    ELSE IF t.type = "Lparen" THEN
        LET r == parse_expression(toks, p + 1, 0) IN
        IF ~r.ok THEN r
        ELSE IF r.pos >= Len(toks) THEN PErr(UnexpectedEndOfInput("')'"), r.pos)
        ELSE IF toks[r.pos + 1].type = "Rparen" THEN POk(r.expr, r.pos + 1)
        ELSE PErr(UnexpectedToken("')'", toks[r.pos + 1], (r.pos + 1) - 1), r.pos + 1)
    ELSE IF t.type = "Operation" /\ t.op = "Subtract" THEN
        LET r == parse_primary(toks, p + 1) IN
        IF ~r.ok THEN r ELSE POk(Unary("Subtract", r.expr), r.pos)
    ELSE PErr(UnexpectedToken("number, unit value, '(', or unary operator", t, p), p + 1)

\* the while loop of parse_expression
parse_operators(toks, left, p, min_precedence) ==
    IF p >= Len(toks) THEN POk(left, p)
    ELSE LET t == toks[p + 1] IN
    IF t.type # "Operation" THEN POk(left, p)
    ELSE IF get_precedence(t.op) < min_precedence THEN POk(left, p)
    ELSE LET r == parse_expression(toks, p + 1, right_precedence(t.op)) IN
         IF ~r.ok THEN r
         ELSE parse_operators(toks, Binary(t.op, left, r.expr), r.pos, min_precedence)

parse_expression(toks, p, min_precedence) ==
    LET l == parse_primary(toks, p) IN
    IF ~l.ok THEN l ELSE parse_operators(toks, l.expr, l.pos, min_precedence)

\* Parser::parse without the comparison of the cursor with the token count
parse_first_expression(toks) ==
    IF Len(toks) = 0 THEN PErr(EmptyTokenStream, 0)
    ELSE parse_expression(toks, 0, 0)

\* Parser::parse on a parser whose cursor is 0
parse(toks) ==
    IF Len(toks) = 0 THEN PErr(EmptyTokenStream, 0)
    ELSE LET r == parse_expression(toks, 0, 0) IN
         IF ~r.ok THEN r
         ELSE IF r.pos < Len(toks)
         THEN PErr(UnexpectedToken("end of input", toks[r.pos + 1], r.pos), r.pos)
         ELSE r

(***************************************************************************)
(* Evaluator: mathengine-evaluator/src/lib.rs.                             *)
(***************************************************************************)
VNumber(n) == [type |-> "Number", n |-> n]
VUnitValue(uv) == [type |-> "UnitValue", uv |-> uv]

EvalOk(v) == [ok |-> TRUE, value |-> v]
EvalErr(e) == [ok |-> FALSE, err |-> e]

DivisionByZero == [kind |-> "DivisionByZero"]
UnknownUnit(unit) == [kind |-> "UnknownUnit", unit |-> unit]
InvalidConversion(from_unit, to_unit) ==
    [kind |-> "InvalidConversion", from_unit |-> from_unit, to_unit |-> to_unit]
UnsupportedOperation(operation, operand_type) ==
    [kind |-> "UnsupportedOperation", operation |-> operation,
     operand_type |-> operand_type]
InvalidUnitExpression(message) == [kind |-> "InvalidUnitExpression", message |-> message]

get_dimension_type(unit) ==
    IF Length_parse_unit(unit) # UnitErr THEN "Length"
    ELSE IF Temperature_parse_unit(unit) # UnitErr THEN "Temperature"
    ELSE "Unknown"

\* the Length arm of the conversion, from and to being the parsed units
\* convert_length tagging the result with the unit of the literal
convert_length_keeps_unit(value, from_unit, to_unit, from, to) ==
    IF from = UnitErr THEN EvalErr(UnknownUnit(from_unit))
    ELSE IF to = UnitErr THEN EvalErr(UnknownUnit(to_unit))
    ELSE EvalOk(VUnitValue(UnitValue_new(Length_convert_to(from, value, to), from_unit)))

convert_length(value, from_unit, to_unit, from, to) ==
    IF from = UnitErr THEN EvalErr(UnknownUnit(from_unit))
    ELSE IF to = UnitErr THEN EvalErr(UnknownUnit(to_unit))
    ELSE EvalOk(VUnitValue(UnitValue_new(Length_convert_to(from, value, to),
                                         Length_canonical_string(to))))

\* the Temperature arm of the conversion
convert_temperature(value, from_unit, to_unit, from, to) ==
    IF from = UnitErr THEN EvalErr(UnknownUnit(from_unit))
    ELSE IF to = UnitErr THEN EvalErr(UnknownUnit(to_unit))
    ELSE EvalOk(VUnitValue(UnitValue_new(Temperature_convert_to(from, value, to),
                                         Temperature_canonical_string(to))))

convert_in(dim, value, from_unit, to_unit) ==
    IF dim = "Length"
    THEN convert_length(value, from_unit, to_unit, Length_parse_unit(from_unit),
                        Length_parse_unit(to_unit))
    ELSE IF dim = "Temperature"
    THEN convert_temperature(value, from_unit, to_unit, Temperature_parse_unit(from_unit),
                             Temperature_parse_unit(to_unit))
    ELSE EvalErr(InvalidConversion(from_unit, to_unit))

\* the Convert arm once left is a UnitValue literal and right a Unit
convert_literal(value, from_unit, to_unit) ==
    convert_in(get_dimension_type(from_unit), value, from_unit, to_unit)

\* the Convert arm of evaluate: both children are read structurally
\* evaluate_convert reading a bare unit on the left as one of that unit
evaluate_convert_unit_left(left, right) ==
    IF left.type = "Unit" /\ right.type = "Unit"
    THEN convert_literal(FromInt(1), left.unit, right.unit)
    ELSE IF left.type # "UnitValue"
    THEN EvalErr(InvalidUnitExpression("Left side of conversion must be a unit value"))
    ELSE IF right.type # "Unit"
    THEN EvalErr(InvalidUnitExpression("Right side of conversion must be a unit"))
    ELSE convert_literal(left.value, left.unit, right.unit)

evaluate_convert(left, right) ==
    IF left.type # "UnitValue"
    THEN EvalErr(InvalidUnitExpression("Left side of conversion must be a unit value"))
    ELSE IF right.type # "Unit"
    THEN EvalErr(InvalidUnitExpression("Right side of conversion must be a unit"))
    ELSE convert_literal(left.value, left.unit, right.unit)

number_number(op, l, r) ==
    CASE op = "Add" -> EvalOk(VNumber(RAdd(l, r)))
      [] op = "Subtract" -> EvalOk(VNumber(RSub(l, r)))
      [] op = "Multiply" -> EvalOk(VNumber(RMul(l, r)))
      [] op = "Divide" ->
            IF IsZero(r) THEN EvalErr(DivisionByZero) ELSE EvalOk(VNumber(RDiv(l, r)))
      [] op = "Power" -> EvalOk(VNumber(RPow(l, r)))
      [] op = "Convert" -> EvalErr(UnsupportedOperation("convert", "numbers"))

unit_unit(op, l, r) ==
    CASE op = "Add" -> EvalOk(VUnitValue(UnitValue_add(l, r)))
      [] op = "Subtract" -> EvalOk(VUnitValue(UnitValue_sub(l, r)))
      [] op \in {"Multiply", "Divide"} -> EvalErr(UnsupportedOperation(op, "unit values"))
      [] op = "Power" -> EvalErr(UnsupportedOperation("power", "unit values"))
      [] op = "Convert" -> EvalErr(UnsupportedOperation("convert", "unit values"))

\* unit_number without the zero check of its Divide arm
unit_number_unchecked(op, l, r) ==
    CASE op = "Add" -> EvalOk(VUnitValue(WithValue(l, RAdd(l.value, r))))
      [] op = "Subtract" -> EvalOk(VUnitValue(WithValue(l, RSub(l.value, r))))
      [] op = "Multiply" -> EvalOk(VUnitValue(WithValue(l, RMul(l.value, r))))
      [] op = "Divide" -> EvalOk(VUnitValue(WithValue(l, RDiv(l.value, r))))
      [] op = "Power" -> EvalErr(UnsupportedOperation("power", "unit value and number"))
      [] op = "Convert" -> EvalErr(UnsupportedOperation("convert", "unit value and number"))

unit_number(op, l, r) ==
    CASE op = "Add" -> EvalOk(VUnitValue(WithValue(l, RAdd(l.value, r))))
      [] op = "Subtract" -> EvalOk(VUnitValue(WithValue(l, RSub(l.value, r))))
      [] op = "Multiply" -> EvalOk(VUnitValue(WithValue(l, RMul(l.value, r))))
      [] op = "Divide" ->
            IF IsZero(r) THEN EvalErr(DivisionByZero)
            ELSE EvalOk(VUnitValue(WithValue(l, RDiv(l.value, r))))
      [] op = "Power" -> EvalErr(UnsupportedOperation("power", "unit value and number"))
      [] op = "Convert" -> EvalErr(UnsupportedOperation("convert", "unit value and number"))

\* number_unit subtracting the number from the unit value
number_unit_swapped(op, l, r) ==
    CASE op = "Add" -> EvalOk(VUnitValue(WithValue(r, RAdd(l, r.value))))
      [] op = "Subtract" -> EvalOk(VUnitValue(WithValue(r, RSub(r.value, l))))
      [] op = "Multiply" -> EvalOk(VUnitValue(WithValue(r, RMul(l, r.value))))
      [] op = "Divide" -> EvalErr(UnsupportedOperation("divide", "number by unit value"))
      [] op = "Power" -> EvalErr(UnsupportedOperation("power", "number and unit value"))
      [] op = "Convert" -> EvalErr(UnsupportedOperation("convert", "number and unit value"))

number_unit(op, l, r) ==
    CASE op = "Add" -> EvalOk(VUnitValue(WithValue(r, RAdd(l, r.value))))
      [] op = "Subtract" -> EvalOk(VUnitValue(WithValue(r, RSub(l, r.value))))
      [] op = "Multiply" -> EvalOk(VUnitValue(WithValue(r, RMul(l, r.value))))
      [] op = "Divide" -> EvalErr(UnsupportedOperation("divide", "number by unit value"))
      [] op = "Power" -> EvalErr(UnsupportedOperation("power", "number and unit value"))
      [] op = "Convert" -> EvalErr(UnsupportedOperation("convert", "number and unit value"))

\* the match on (left_val, right_val)
binary_values(op, lv, rv) ==
    IF lv.type = "Number" /\ rv.type = "Number" THEN number_number(op, lv.n, rv.n)
    ELSE IF lv.type = "UnitValue" /\ rv.type = "UnitValue" THEN unit_unit(op, lv.uv, rv.uv)
    ELSE IF lv.type = "UnitValue" THEN unit_number(op, lv.uv, rv.n)
    ELSE number_unit(op, lv.n, rv.uv)

\* unary_value negating a unit value like a number
unary_value_negating(op, val) ==
    IF op = "Subtract" THEN
        IF val.type = "Number" THEN EvalOk(VNumber(RNeg(val.n)))
        ELSE EvalOk(VUnitValue(WithValue(val.uv, RNeg(val.uv.value))))
    ELSE EvalErr(UnsupportedOperation(op, "unary operand"))

unary_value(op, val) ==
    IF op = "Subtract" THEN
        IF val.type = "Number" THEN EvalOk(VNumber(RNeg(val.n)))
        ELSE EvalErr(UnsupportedOperation("negate", "unit value"))
    ELSE EvalErr(UnsupportedOperation(op, "unary operand"))

RECURSIVE evaluate(_)
\* evaluate taking the right child of a binary node first
evaluate_right_first(e) ==
    IF e.type = "Number" THEN EvalOk(VNumber(e.value))
    ELSE IF e.type = "UnitValue" THEN EvalOk(VUnitValue(UnitValue_new(e.value, e.unit)))
    ELSE IF e.type = "Unit"
    THEN EvalErr(InvalidUnitExpression("Cannot evaluate a unit without a value"))
    ELSE IF e.type = "Binary" THEN
        IF e.op = "Convert" THEN evaluate_convert(e.left, e.right)
        ELSE LET right_val == evaluate(e.right) IN
             IF ~right_val.ok THEN right_val
             ELSE LET left_val == evaluate(e.left) IN
                  IF ~left_val.ok THEN left_val
                  ELSE binary_values(e.op, left_val.value, right_val.value)
    ELSE LET val == evaluate(e.operand) IN
         IF ~val.ok THEN val ELSE unary_value(e.op, val.value)

evaluate(e) ==
    IF e.type = "Number" THEN EvalOk(VNumber(e.value))
    ELSE IF e.type = "UnitValue" THEN EvalOk(VUnitValue(UnitValue_new(e.value, e.unit)))
    ELSE IF e.type = "Unit"
    THEN EvalErr(InvalidUnitExpression("Cannot evaluate a unit without a value"))
    ELSE IF e.type = "Binary" THEN
        IF e.op = "Convert" THEN evaluate_convert(e.left, e.right)
        ELSE LET left_val == evaluate(e.left) IN
             IF ~left_val.ok THEN left_val
             ELSE LET right_val == evaluate(e.right) IN
                  IF ~right_val.ok THEN right_val
                  ELSE binary_values(e.op, left_val.value, right_val.value)
    ELSE LET val == evaluate(e.operand) IN
         IF ~val.ok THEN val ELSE unary_value(e.op, val.value)

(***************************************************************************)
(* The callers.  evaluate_expression (mathengine/src/lib.rs) and the CLI's *)
(* process_expression run tokenize, parse and evaluate in turn; `?` ends   *)
(* the call at the first Err.  Parser::new and evaluate are public too, so *)
(* a call may start from a token vector or from a tree.                    *)
(***************************************************************************)
NoExpr == [type |-> "None"]
NoResult == [pending |-> TRUE]

Success(v) == [ok |-> TRUE, value |-> v]
\* From<LexError>, From<ParseError>, From<EvalError> for MathEngineError
Failure(stage, e) == [ok |-> FALSE, stage |-> stage, err |-> e]

\* the `?` after a stage: go on when it returned Ok, return when it returned Err
\* the stages chained without the ? operator
no_question_mark(ok, next) == next

question_mark(ok, next) == IF ok THEN next ELSE "done"

Tokenize ==
    /\ pc = "lex"
    /\ LET r == tokenize(source) IN
        /\ tokens' = IF r.ok THEN r.tokens ELSE tokens
        /\ result' = IF r.ok THEN result ELSE Failure("Lexer", r.err)
        /\ pc' = question_mark(r.ok, "parse")
    /\ UNCHANGED <<source, pos, expr>>

Parse ==
    /\ pc = "parse"
    /\ LET r == parse(tokens) IN
        /\ pos' = r.pos
        /\ expr' = IF r.ok THEN r.expr ELSE expr
        /\ result' = IF r.ok THEN result ELSE Failure("Parser", r.err)
        /\ pc' = question_mark(r.ok, "eval")
    /\ UNCHANGED <<source, tokens>>

Evaluate ==
    /\ pc = "eval"
    /\ LET r == evaluate(expr) IN
        /\ result' = IF r.ok THEN Success(r.value) ELSE Failure("Evaluator", r.err)
        /\ pc' = "done"
    /\ UNCHANGED <<source, tokens, pos, expr>>

\* the unit framework called on one spelling
ParseUnit ==
    /\ pc = "unit"
    /\ result' = [length |-> Length_parse_unit(source),
                  temperature |-> Temperature_parse_unit(source),
                  dimension |-> DimensionType_from_unit(source),
                  canonical |-> canonicalize_unit(source)]
    /\ pc' = "done"
    /\ UNCHANGED <<source, tokens, pos, expr>>

(***************************************************************************)
(* Inputs.                                                                 *)
(***************************************************************************)
SeqsUpTo(S, n) == UNION {[1..k -> S] : k \in 0..n}

RECURSIVE Concat(_)
Concat(ws) == IF Len(ws) = 0 THEN "" ELSE Head(ws) \o Concat(Tail(ws))

\* the expressions of the CLI's main
expressions ==
    {"2 + 3 * (100.50 - 4)", "10m to feet", "10m + 2", "10 feet to in", "2^10",
     "23C to f", "1m to miles", "", "2 + + 3", "2 / 0", "10xyz to m"}

\* the expressions of evaluate_expression's documentation
DocExamples ==
    {"(1 + 2) * 3", "1m + 50cm", "2ft - 6in", "100cm to meters", "32F to celsius",
     "(1m + 2m) to feet", "2 + 3 * 4"}

\* the expressions of the specification's scenarios
Scenarios == {"1m + 1m + 100cm", "100cm to m", "23C to F", "2^3^2", "10 to m"}

Words == {"10", "2", "m", "xyz", " to ", " ", "+", "-", "^", "(", ")", "$", "."}

\* conversions written one after another or inside one another
ChainedConversions == {"10m to ft to in", "1m to (2m to ft)"}

FreeTokens ==
    {TNumber(FromInt(1)), TUnitValue(FromInt(1), "m"), TUnit("ft"), Lparen, Rparen}
        \cup {TOperation(op) : op \in Operations}

\* p1 op1 p2 ... opn p(n+1): the operand at place i is the number i
Chain(ops) ==
    [i \in 1..(2 * Len(ops) + 1) |->
        IF i % 2 = 1 THEN TNumber(FromInt((i + 1) \div 2)) ELSE TOperation(ops[i \div 2])]

Chains == {Chain(ops) : ops \in SeqsUpTo(Operations, MaxOps)}

TokenInputs == SeqsUpTo(FreeTokens, MaxTokens) \cup Chains

Leaves ==
    {ENumber(FromInt(k)) : k \in 0..MaxLit}
        \cup {EUnitValue(FromInt(1), "m"), EUnitValue(FromInt(100), "cm"),
              EUnitValue(FromInt(1), "C"), EUnitValue(FromInt(1), "unknown")}
        \cup {EUnit("ft"), EUnit("c"), EUnit("xyz")}

Grow(T) ==
    T \cup {Binary(op, a, b) : op \in Operations, a \in T, b \in Leaves}
      \cup {Binary(op, a, b) : op \in Operations, a \in Leaves, b \in T}
      \cup {Unary(op, a) : op \in {"Subtract", "Add"}, a \in T}

Depth1 == Grow(Leaves)

\* the known unit vocabulary
Vocabulary ==
    {"meter", "meters", "m", "centimeter", "centimeters", "cm", "millimeter",
     "millimeters", "mm", "kilometer", "kilometers", "km", "foot", "feet", "ft",
     "inch", "inches", "in", "yard", "yards", "yd", "mile", "miles", "mi",
     "celsius", "C", "fahrenheit", "F", "kelvin", "K"}

Capitalize(s) == IF s = "" THEN "" ELSE UpperChar(CharAt(s, 1)) \o SubSeq(s, 2, Len(s))

Spellings ==
    UNION {{w, to_lowercase(w), to_uppercase(w), Capitalize(w)} : w \in Vocabulary}
        \cup {"xyz", "to", "unknown", "celcius", "farenheit", ""}

\* a literal converted to a target written in every spelling
SpelledConversions ==
    {l \o " to " \o w : l \in {"100cm", "10 feet", "2.5C", "3 K"}, w \in Spellings}

\* unary minus before a primary, alone, repeated and next to binary operators
UnaryMinuses ==
    {"-2^2", "---2", "-2 + 3", "2 - -3", "2^-2", "-(2^2)", "-(2 + 3) * 2", "--2 * 3",
     "-10m + 2", "- - 2^2"}

\* the word "to" in several letter cases, after numbers and after other words
WordsTo == {"10 TO m", "10To m", "2.5   to ft", "2 tom", "m2 to ft", "(10) To m", "1 2 to"}

Sources ==
    {Concat(ws) : ws \in SeqsUpTo(Words, MaxWords)}
        \cup expressions \cup DocExamples \cup Scenarios \cup ChainedConversions
        \cup SpelledConversions \cup WordsTo \cup UnaryMinuses

(***************************************************************************)
(* Specifications.                                                         *)
(***************************************************************************)
Fresh ==
    /\ tokens = <<>>
    /\ pos = 0
    /\ expr = NoExpr
    /\ result = NoResult

\* evaluate_expression(source)
Init == source \in Sources /\ Fresh /\ pc = "lex"
Next == Tokenize \/ Parse \/ Evaluate
Spec == Init /\ [][Next]_vars

\* Parser::new(tokens).parse(), then evaluate
InitParse == source = "" /\ pos = 0 /\ expr = NoExpr /\ result = NoResult
                /\ tokens \in TokenInputs /\ pc = "parse"
NextParse == Parse \/ Evaluate
SpecParse == InitParse /\ [][NextParse]_vars

\* evaluate(expr)
InitEval == source = "" /\ tokens = <<>> /\ pos = 0 /\ result = NoResult
                /\ pc = "eval"
                /\ \E a \in Depth1 : \E b \in Leaves : \E op \in Operations :
                      expr \in {a, Binary(op, a, b), Binary(op, b, a), Unary("Subtract", a)}
NextEval == Evaluate
SpecEval == InitEval /\ [][NextEval]_vars

\* the unit parsers on one spelling
InitUnits == source \in Spellings /\ Fresh /\ pc = "unit"
NextUnits == ParseUnit
SpecUnits == InitUnits /\ [][NextUnits]_vars

(***************************************************************************)
(* The families' own conversions: a LengthDimension or                     *)
(* TemperatureDimension converted to a target unit and back.               *)
(***************************************************************************)
MaxValue == 3

\* a LengthDimension or TemperatureDimension, with the unit it is converted to
Conversion(family, unit, value, target) ==
    [type |-> "Conversion", family |-> family, unit |-> unit, value |-> value,
     target |-> target]

family_convert_to(family, from, v, target) ==
    IF family = "Length" THEN Length_convert_to(from, v, target)
    ELSE Temperature_convert_to(from, v, target)

\* self.convert_to(target)
ConvertTo ==
    /\ pc = "convert"
    /\ result' = [unit |-> expr.target,
                  value |-> family_convert_to(expr.family, expr.unit, expr.value, expr.target)]
    /\ pc' = "back"
    /\ UNCHANGED <<source, tokens, pos, expr>>

\* the converted dimension converted to the unit it came from
ConvertBack ==
    /\ pc = "back"
    /\ result' = [unit |-> expr.unit,
                  value |-> family_convert_to(expr.family, result.unit, result.value, expr.unit),
                  via |-> result.value]
    /\ pc' = "done"
    /\ UNCHANGED <<source, tokens, pos, expr>>

\* the values converted: the halves from -MaxValue to MaxValue
Values == {Rat(k, 2) : k \in (-2 * MaxValue)..(2 * MaxValue)}

Conversions ==
    {Conversion("Length", a, v, b) : a \in LengthUnits, b \in LengthUnits, v \in Values}
        \cup {Conversion("Temperature", a, v, b) :
                a \in TemperatureUnits, b \in TemperatureUnits, v \in Values}

InitConvert == source = "" /\ tokens = <<>> /\ pos = 0 /\ result = NoResult
                /\ pc = "convert" /\ expr \in Conversions
NextConvert == ConvertTo \/ ConvertBack
SpecConvert == InitConvert /\ [][NextConvert]_vars

(***************************************************************************)
(* Concurrent callers of evaluate_expression: mathengine/src/lib.rs.       *)
(* Every call owns its lexer, token vector, parser and expression; the     *)
(* variables hold one component per caller.                                *)
(***************************************************************************)
MaxCallers == 2

Callers == 1..MaxCallers

\* one call run alone, from the source to the returned Result
evaluate_expression(src) ==
    LET t == tokenize(src) IN
    IF ~t.ok THEN Failure("Lexer", t.err)
    ELSE LET q == parse(t.tokens) IN
         IF ~q.ok THEN Failure("Parser", q.err)
         ELSE LET v == evaluate(q.expr) IN
              IF v.ok THEN Success(v.value) ELSE Failure("Evaluator", v.err)

CallTokenize(c) ==
    /\ pc[c] = "lex"
    /\ LET r == tokenize(source[c]) IN
        /\ tokens' = [tokens EXCEPT ![c] = IF r.ok THEN r.tokens ELSE @]
        /\ result' = [result EXCEPT ![c] = IF r.ok THEN @ ELSE Failure("Lexer", r.err)]
        /\ pc' = [pc EXCEPT ![c] = question_mark(r.ok, "parse")]
    /\ UNCHANGED <<source, pos, expr>>

\* a parser reading the token vector of the first caller
CallParse_first_tokens(c) ==
    /\ pc[c] = "parse"
    /\ LET r == parse(tokens[1]) IN
        /\ pos' = [pos EXCEPT ![c] = r.pos]
        /\ expr' = [expr EXCEPT ![c] = IF r.ok THEN r.expr ELSE @]
        /\ result' = [result EXCEPT ![c] = IF r.ok THEN @ ELSE Failure("Parser", r.err)]
        /\ pc' = [pc EXCEPT ![c] = question_mark(r.ok, "eval")]
    /\ UNCHANGED <<source, tokens>>

CallParse(c) ==
    /\ pc[c] = "parse"
    /\ LET r == parse(tokens[c]) IN
        /\ pos' = [pos EXCEPT ![c] = r.pos]
        /\ expr' = [expr EXCEPT ![c] = IF r.ok THEN r.expr ELSE @]
        /\ result' = [result EXCEPT ![c] = IF r.ok THEN @ ELSE Failure("Parser", r.err)]
        /\ pc' = [pc EXCEPT ![c] = question_mark(r.ok, "eval")]
    /\ UNCHANGED <<source, tokens>>

CallEvaluate(c) ==
    /\ pc[c] = "eval"
    /\ LET r == evaluate(expr[c]) IN
        /\ result' = [result EXCEPT ![c] =
                        IF r.ok THEN Success(r.value) ELSE Failure("Evaluator", r.err)]
        /\ pc' = [pc EXCEPT ![c] = "done"]
    /\ UNCHANGED <<source, tokens, pos, expr>>

\* expressions that end at each stage, with and without success
CallerSources ==
    {"", "$", "2 +", "2^3^2", "1 / 0", "10m to ft", "1m + 100cm", "1m to C", "-5m"}

InitCallers ==
    /\ source \in [Callers -> CallerSources]
    /\ tokens = [c \in Callers |-> <<>>]
    /\ pos = [c \in Callers |-> 0]
    /\ expr = [c \in Callers |-> NoExpr]
    /\ result = [c \in Callers |-> NoResult]
    /\ pc = [c \in Callers |-> "lex"]

NextCallers == \E c \in Callers : CallTokenize(c) \/ CallParse(c) \/ CallEvaluate(c)

SpecCallers == InitCallers /\ [][NextCallers]_vars

(***************************************************************************)
(* Parser::parse step by step: mathengine-parser/src/parser.rs.            *)
(* pos is the cursor; expr holds the frames of the calls in progress, the  *)
(* innermost last; result holds the value the last finished call returned. *)
(***************************************************************************)
ExpressionFrame(min_precedence) ==
    [fn |-> "parse_expression", min |-> min_precedence, at |-> "primary"]

\* Parser::parse up to its call of parse_expression(0)
ParseBegin ==
    /\ pc = "begin"
    /\ IF Len(tokens) = 0
       THEN /\ result' = PErr(EmptyTokenStream, 0)
            /\ pc' = "done"
            /\ expr' = expr
       ELSE /\ expr' = <<[fn |-> "parse"], ExpressionFrame(0)>>
            /\ pc' = "primary"
            /\ result' = result
    /\ UNCHANGED <<source, tokens, pos>>

\* parse_primary: advance() and the match on the token
PrimaryStep ==
    /\ pc = "primary"
    /\ source' = source
    /\ tokens' = tokens
    /\ IF pos >= Len(tokens)
       THEN /\ result' = PErr(UnexpectedEndOfInput("expression"), pos)
            /\ pc' = "return"
            /\ UNCHANGED <<pos, expr>>
       ELSE LET t == tokens[pos + 1] IN
            /\ pos' = pos + 1
            /\ IF t.type = "Number"
               THEN result' = POk(ENumber(t.value), pos + 1) /\ pc' = "return" /\ expr' = expr
               ELSE IF t.type = "UnitValue"
               THEN /\ result' = POk(EUnitValue(t.value, canonicalize_unit(t.unit)), pos + 1)
                    /\ pc' = "return"
                    /\ expr' = expr
               ELSE IF t.type = "Unit"
               THEN result' = POk(EUnit(t.unit), pos + 1) /\ pc' = "return" /\ expr' = expr
               ELSE IF t.type = "Lparen"
               THEN /\ expr' = expr \o <<[fn |-> "parse_primary", arm |-> "Lparen"],
                                        ExpressionFrame(0)>>
                    /\ pc' = "primary"
                    /\ result' = result
               ELSE IF t.type = "Operation" /\ t.op = "Subtract"
               THEN /\ expr' = Append(expr, [fn |-> "parse_primary", arm |-> "Subtract"])
                    /\ pc' = "primary"
                    /\ result' = result
               ELSE /\ result' = PErr(UnexpectedToken(
                                        "number, unit value, '(', or unary operator", t, pos),
                                      pos + 1)
                    /\ pc' = "return"
                    /\ expr' = expr

\* an operator loop that peeks at the operator and leaves it in place
OperatorStep_without_advance ==
    /\ pc = "loop"
    /\ source' = source
    /\ tokens' = tokens
    /\ LET top == expr[Len(expr)]
           rest == SubSeq(expr, 1, Len(expr) - 1)
       IN  IF \/ pos >= Len(tokens)
              \/ tokens[pos + 1].type # "Operation"
              \/ get_precedence(tokens[pos + 1].op) < top.min
           THEN /\ result' = POk(top.left, pos)
                /\ expr' = rest
                /\ pc' = "return"
                /\ pos' = pos
           ELSE /\ pos' = pos
                /\ expr' = rest \o <<[top EXCEPT !.at = "right"] @@ [op |-> tokens[pos + 1].op],
                                     ExpressionFrame(right_precedence(tokens[pos + 1].op))>>
                /\ pc' = "primary"
                /\ result' = result

\* one pass of the while loop of parse_expression, up to the recursive call
OperatorStep ==
    /\ pc = "loop"
    /\ source' = source
    /\ tokens' = tokens
    /\ LET top == expr[Len(expr)]
           rest == SubSeq(expr, 1, Len(expr) - 1)
       IN  IF \/ pos >= Len(tokens)
              \/ tokens[pos + 1].type # "Operation"
              \/ get_precedence(tokens[pos + 1].op) < top.min
           THEN /\ result' = POk(top.left, pos)
                /\ expr' = rest
                /\ pc' = "return"
                /\ pos' = pos
           ELSE /\ pos' = pos + 1
                /\ expr' = rest \o <<[top EXCEPT !.at = "right"] @@ [op |-> tokens[pos + 1].op],
                                     ExpressionFrame(right_precedence(tokens[pos + 1].op))>>
                /\ pc' = "primary"
                /\ result' = result

\* the caller's code after a call returns: the `?`, then the rest of the arm
ReturnStep ==
    /\ pc = "return"
    /\ source' = source
    /\ tokens' = tokens
    /\ LET top == expr[Len(expr)]
           rest == SubSeq(expr, 1, Len(expr) - 1)
       IN  IF ~result.ok
           THEN pc' = "done" /\ expr' = <<>> /\ UNCHANGED <<pos, result>>
           ELSE IF top.fn = "parse_primary" /\ top.arm = "Subtract"
           THEN /\ result' = POk(Unary("Subtract", result.expr), pos)
                /\ expr' = rest
                /\ pc' = "return"
                /\ pos' = pos
           ELSE IF top.fn = "parse_primary" /\ top.arm = "Lparen"
           THEN /\ expr' = rest
                /\ pc' = "return"
                /\ IF pos >= Len(tokens)
                   THEN result' = PErr(UnexpectedEndOfInput("')'"), pos) /\ pos' = pos
                   ELSE /\ pos' = pos + 1
                        /\ result' = IF tokens[pos + 1].type = "Rparen"
                                     THEN POk(result.expr, pos + 1)
                                     ELSE PErr(UnexpectedToken("')'", tokens[pos + 1],
                                                               (pos + 1) - 1), pos + 1)
           ELSE IF top.fn = "parse_expression"
           THEN /\ expr' = Append(rest,
                        [fn |-> "parse_expression", min |-> top.min, at |-> "loop",
                         left |-> IF top.at = "primary" THEN result.expr
                                  ELSE Binary(top.op, top.left, result.expr)])
                /\ pc' = "loop"
                /\ UNCHANGED <<pos, result>>
           ELSE /\ result' = IF pos < Len(tokens)
                             THEN PErr(UnexpectedToken("end of input", tokens[pos + 1], pos),
                                       pos)
                             ELSE result
                /\ pc' = "done"
                /\ expr' = <<>>
                /\ pos' = pos

\* token vectors with parentheses, unary minus and operators of every level
CursorInputs ==
    SeqsUpTo({TNumber(FromInt(1)), TUnitValue(FromInt(1), "m"), Lparen, Rparen,
              TOperation("Subtract"), TOperation("Power")}, MaxTokens)
        \cup Chains
        \cup {tokenize(s).tokens : s \in {"(1 + 2) * 3", "-(2^2)", "2 - -3", "((1) + (2", "2 * (3 + 4) ^ 2"}}

InitCursor == source = "" /\ tokens \in CursorInputs /\ pos = 0 /\ expr = <<>>
                /\ result = NoResult /\ pc = "begin"
NextCursor == ParseBegin \/ PrimaryStep \/ OperatorStep \/ ReturnStep
\* the parser is sequential code: a step that can be taken is taken
SpecCursor == InitCursor /\ [][NextCursor]_vars /\ WF_vars(NextCursor)

(***************************************************************************)
(* Properties.                                                             *)
(***************************************************************************)
Done == pc = "done"

IsBinary(e, ops) == e.type = "Binary" /\ e.op \in ops

\* e evaluates to a Dimensioned value
Dimensioned(e) == evaluate(e).ok /\ evaluate(e).value.type = "UnitValue"

\* e evaluates to a plain Number
PlainNumber(e) == evaluate(e).ok /\ evaluate(e).value.type = "Number"

DimensionOf(e) == evaluate(e).value.uv.dimension

Failed(stage, kind) == ~result.ok /\ result.stage = stage /\ result.err.kind = kind

\* C1: Add or Subtract over two dimensioned operands whose families differ, or
\* one of whose families is Unknown, fails with IncompatibleUnits and returns
\* no Value.
C1_MismatchedSumFails ==
    (/\ Done
     /\ IsBinary(expr, {"Add", "Subtract"})
     /\ Dimensioned(expr.left)
     /\ Dimensioned(expr.right)
     /\ \/ DimensionOf(expr.left) # DimensionOf(expr.right)
        \/ DimensionOf(expr.left) = "Unknown"
        \/ DimensionOf(expr.right) = "Unknown")
    => Failed("Evaluator", "IncompatibleUnits")

LeftSideMessage == "Left side of conversion must be a unit value"

\* C2: a conversion succeeds whenever its left child evaluates to a Dimensioned
\* value and its right child names a unit of the same family, whatever the
\* shape of the left child; of the left children that evaluate, only those
\* evaluating to a plain Number produce the "left side of conversion" error.
C2_ConvertAnyDimensionedLeft ==
    (Done /\ IsBinary(expr, {"Convert"})) =>
        /\ (/\ Dimensioned(expr.left)
            /\ DimensionOf(expr.left) # "Unknown"
            /\ expr.right.type = "Unit"
            /\ DimensionType_from_unit(expr.right.unit) = DimensionOf(expr.left))
           => result.ok
        /\ (/\ evaluate(expr.left).ok
            /\ ~result.ok
            /\ result.err = InvalidUnitExpression(LeftSideMessage))
           => PlainNumber(expr.left)

\* C3: a conversion of a unit literal to a unit of another family, or one where
\* either unit classifies as Unknown, fails with InvalidConversion{from_unit,
\* to_unit} and with no other error kind.
C3_CrossFamilyIsInvalidConversion ==
    (/\ Done
     /\ IsBinary(expr, {"Convert"})
     /\ expr.left.type = "UnitValue"
     /\ expr.right.type = "Unit"
     /\ \/ DimensionType_from_unit(expr.left.unit) # DimensionType_from_unit(expr.right.unit)
        \/ DimensionType_from_unit(expr.left.unit) = "Unknown"
        \/ DimensionType_from_unit(expr.right.unit) = "Unknown")
    => (~result.ok /\ result.err = InvalidConversion(expr.left.unit, expr.right.unit))

\* tokens is a number-with-unit literal, the Convert operation and a unit name
IsLiteralConversion(toks) ==
    /\ Len(toks) = 3
    /\ toks[1].type = "UnitValue"
    /\ toks[2] = TOperation("Convert")
    /\ toks[3].type = "Unit"

\* C4: the pipeline run on a conversion whose literal has a unit spelling no
\* family recognizes fails with UnknownUnit carrying the spelling as written.
C4_UnknownLiteralUnitReported ==
    (/\ Done
     /\ IsLiteralConversion(tokens)
     /\ DimensionType_from_unit(tokens[1].unit) = "Unknown")
    => (~result.ok /\ result = Failure("Evaluator", UnknownUnit(tokens[1].unit)))

\* the unit each spelling of the known vocabulary names (lowercased spelling)
VocabularyUnit(l) ==
    CASE l \in {"meter", "meters", "m"} -> "Meter"
      [] l \in {"centimeter", "centimeters", "cm"} -> "Centimeter"
      [] l \in {"millimeter", "millimeters", "mm"} -> "Millimeter"
      [] l \in {"kilometer", "kilometers", "km"} -> "Kilometer"
      [] l \in {"foot", "feet", "ft"} -> "Foot"
      [] l \in {"inch", "inches", "in"} -> "Inch"
      [] l \in {"yard", "yards", "yd"} -> "Yard"
      [] l \in {"mile", "miles", "mi"} -> "Mile"
      [] l \in {"celsius", "c"} -> "Celcius"
      [] l \in {"fahrenheit", "f"} -> "Farenheit"
      [] l \in {"kelvin", "k"} -> "Kelvin"

InVocabulary(s) == \E w \in Vocabulary : to_lowercase(w) = to_lowercase(s)

\* C5: every spelling of the known unit vocabulary, in any letter case, is
\* parsed to its unit by the parser of its family.
C5_VocabularyParsed ==
    (Done /\ InVocabulary(source)) =>
        IF VocabularyUnit(to_lowercase(source)) \in LengthUnits
        THEN result.length = VocabularyUnit(to_lowercase(source))
        ELSE result.temperature = VocabularyUnit(to_lowercase(source))

\* C6: Divide by a right operand that evaluates to Number(0.0) fails with
\* DivisionByZero, whether the left operand evaluates to a Number or to a
\* Dimensioned value.
C6_DivideByZero ==
    (/\ Done
     /\ IsBinary(expr, {"Divide"})
     /\ evaluate(expr.left).ok
     /\ evaluate(expr.right) = EvalOk(VNumber(Zero)))
    => result = Failure("Evaluator", DivisionByZero)

C6_Witness ==
    /\ Done
    /\ IsBinary(expr, {"Divide"})
    /\ Dimensioned(expr.left)
    /\ expr.right.type = "Binary"
    /\ evaluate(expr.right) = EvalOk(VNumber(Zero))
    /\ result = Failure("Evaluator", DivisionByZero)

\* the tokens alternate operands and operations, starting and ending with an
\* operand: p1 op1 p2 op2 p3 ...
IsChain(toks) ==
    /\ Len(toks) % 2 = 1
    /\ \A i \in 1..Len(toks) :
        IF i % 2 = 1 THEN toks[i].type = "Number" ELSE toks[i].type = "Operation"

\* the precedence table of the parser's contract
Level(op) ==
    CASE op \in {"Add", "Subtract"} -> 1
      [] op \in {"Multiply", "Divide"} -> 2
      [] op = "Power" -> 3
      [] op = "Convert" -> 5

Least(S) == CHOOSE k \in S : \A j \in S : k <= j

Greatest(S) == CHOOSE k \in S : \A j \in S : k >= j

Loosest(toks, places) ==
    {k \in places : \A j \in places : Level(toks[k].op) <= Level(toks[j].op)}

\* the operator at which the chain toks[lo..hi] splits: among its loosest
\* operators the last one, or the first one when they are Power
SplitPlace(toks, lo, hi) ==
    IF \A k \in Loosest(toks, {j \in lo..hi : j % 2 = 0}) : toks[k].op = "Power"
    THEN Least(Loosest(toks, {j \in lo..hi : j % 2 = 0}))
    ELSE Greatest(Loosest(toks, {j \in lo..hi : j % 2 = 0}))

RECURSIVE Grouping(_, _, _)
GroupAt(toks, lo, k, hi) ==
    Binary(toks[k].op, Grouping(toks, lo, k - 1), Grouping(toks, k + 1, hi))

Grouping(toks, lo, hi) ==
    IF lo = hi THEN ENumber(toks[lo].value)
    ELSE GroupAt(toks, lo, SplitPlace(toks, lo, hi), hi)

C8_AllTokensConsumed ==
    pc # "parse" =>
        /\ expr # NoExpr => pos = Len(tokens)
        /\ (/\ Len(tokens) > 0
            /\ parse_expression(tokens, 0, 0).ok
            /\ parse_expression(tokens, 0, 0).pos < Len(tokens))
           => /\ expr = NoExpr
              /\ pos = parse_expression(tokens, 0, 0).pos
              /\ result = Failure("Parser",
                    UnexpectedToken("end of input", tokens[pos + 1], pos))

C8_Witness ==
    /\ Done
    /\ Failed("Parser", "UnexpectedToken")
    /\ result.err.expected = "end of input"
    /\ pos > 1
    /\ pos < Len(tokens)
    /\ result.err.found = tokens[pos + 1]
    /\ result.err.position = pos

\* the index after the run of characters of S that starts at i
RECURSIVE RunEnd(_, _, _)
RunEnd(src, i, S) ==
    IF i <= Len(src) /\ CharAt(src, i) \in S THEN RunEnd(src, i + 1, S) ELSE i

\* the index after NUMBER := digits ('.' digits)? starting at i, or 0
NumberEnd(src, i, j) ==
    IF j <= Len(src) /\ CharAt(src, j) = "."
    THEN IF RunEnd(src, j + 1, DigitChars) > j + 1
         THEN RunEnd(src, j + 1, DigitChars) ELSE 0
    ELSE j

WordKind(w) == IF to_lowercase(w) = "to" THEN "TO" ELSE "UNIT_NAME"

NoTerminals == <<"none">>

\* the terminals of the input grammar that src spells, or NoTerminals
RECURSIVE Terminals(_, _, _)
TerminalsAfterNumber(src, i, j, acc) ==
    IF j = 0 THEN NoTerminals ELSE Terminals(src, j, Append(acc, "NUMBER"))

TerminalsAfterWord(src, i, j, acc) ==
    Terminals(src, j, Append(acc, WordKind(SubSeq(src, i, j - 1))))

Terminals(src, i, acc) ==
    IF i > Len(src) THEN acc
    ELSE IF CharAt(src, i) = " " THEN Terminals(src, i + 1, acc)
    ELSE IF CharAt(src, i) \in DigitChars
    THEN TerminalsAfterNumber(src, i, NumberEnd(src, i, RunEnd(src, i, DigitChars)), acc)
    ELSE IF CharAt(src, i) \in (UpperChars \cup LowerChars)
    THEN TerminalsAfterWord(src, i, RunEnd(src, i, UpperChars \cup LowerChars), acc)
    ELSE IF CharAt(src, i) \in {"+", "-", "*", "/", "^", "(", ")"}
    THEN Terminals(src, i + 1, Append(acc, CharAt(src, i)))
    ELSE NoTerminals

\* the number of terminals of ks[p+1..] that the nonterminal derives, counted
\* from the start of ks, or -1 when it derives no prefix
RECURSIVE DerivePrimary(_, _), DeriveExpr(_, _)
DeriveClosing(ks, q) ==
    IF q >= 0 /\ q < Len(ks) /\ ks[q + 1] = ")" THEN q + 1 ELSE -1

DeriveTail(ks, q) ==
    IF q < 0 THEN -1
    ELSE IF q < Len(ks) /\ ks[q + 1] \in {"+", "-", "*", "/", "^", "TO"}
    THEN DeriveExpr(ks, q + 1)
    ELSE q

DerivePrimary(ks, p) ==
    IF p >= Len(ks) THEN -1
    ELSE CASE ks[p + 1] = "NUMBER" ->
                IF p + 1 < Len(ks) /\ ks[p + 2] = "UNIT_NAME" THEN p + 2 ELSE p + 1
           [] ks[p + 1] = "UNIT_NAME" -> p + 1
           [] ks[p + 1] = "(" -> DeriveClosing(ks, DeriveExpr(ks, p + 1))
           [] ks[p + 1] = "-" -> DerivePrimary(ks, p + 1)
           [] OTHER -> -1

DeriveExpr(ks, p) == DeriveTail(ks, DerivePrimary(ks, p))

DerivesAll(ks) == ks # NoTerminals /\ DeriveExpr(ks, 0) = Len(ks)

\* src is derivable from expr of the input grammar
Derivable(src) == DerivesAll(Terminals(src, 1, <<>>))

\* C9: lexing then parsing yields a tree with no leftover tokens for every
\* string derivable from the input grammar, and exactly one lexical or
\* syntactic error and no tree for every other string.
C9_TotalOverGrammar ==
    pc \in {"eval", "done"} =>
        IF Derivable(source)
        THEN expr # NoExpr /\ pos = Len(tokens)
        ELSE expr = NoExpr /\ Done /\ ~result.ok /\ result.stage \in {"Lexer", "Parser"}

\* C10: the stages run in the order lex, parse, evaluate and the run stops at
\* the first stage that fails, with the one error of that stage tagged by it:
\* the parser sees only tokens the lexer produced and the evaluator only a
\* tree the parser produced.
C10_FirstFailingStage ==
    /\ pc = "parse" =>
        /\ tokenize(source).ok
        /\ tokens = tokenize(source).tokens
        /\ expr = NoExpr
        /\ result = NoResult
    /\ pc = "eval" =>
        /\ tokenize(source).ok
        /\ parse(tokens).ok
        /\ expr = parse(tokens).expr
        /\ result = NoResult
    /\ Done =>
        IF ~tokenize(source).ok
        THEN /\ result = Failure("Lexer", tokenize(source).err)
             /\ tokens = <<>> /\ pos = 0 /\ expr = NoExpr
        ELSE IF ~parse(tokens).ok
        THEN result = Failure("Parser", parse(tokens).err) /\ expr = NoExpr
        ELSE IF ~evaluate(expr).ok
        THEN result = Failure("Evaluator", evaluate(expr).err)
        ELSE result = Success(evaluate(expr).value)

\* the characters before the one the lexer rejected
LexedPrefix == SubSeq(source, 1, result.err.position)

\* an input with a lexical and a syntactic fault reports the lexical one
C10_Witness ==
    /\ Done
    /\ Failed("Lexer", "UnexpectedCharacter")
    /\ tokenize(LexedPrefix).ok
    /\ ~parse(tokenize(LexedPrefix).tokens).ok
    /\ parse(tokenize(LexedPrefix).tokens).err.kind = "UnexpectedToken"

\* some token is a number-with-unit literal whose spelling no family recognizes
HasUnknownLiteral(toks) ==
    \E i \in 1..Len(toks) :
        toks[i].type = "UnitValue" /\ DimensionType_from_unit(toks[i].unit) = "Unknown"

\* C11: no expression containing a number-with-unit literal whose unit spelling
\* is recognized by no family evaluates successfully; it ends in an error and
\* never in a Value tagged with the placeholder unit "unknown".
C11_UnknownLiteralNeverSucceeds ==
    (Done /\ HasUnknownLiteral(tokens)) => ~result.ok

SameKnownFamily(e) ==
    /\ Dimensioned(e.left)
    /\ Dimensioned(e.right)
    /\ DimensionOf(e.left) = DimensionOf(e.right)
    /\ DimensionOf(e.left) # "Unknown"

\* C13: for two dimensioned values a and b of the same known family, a + b and
\* b + a evaluate to the same result: the same value and the same unit, the
\* family's base unit.
C13_AddCommutes ==
    (Done /\ IsBinary(expr, {"Add"}) /\ SameKnownFamily(expr)) =>
        /\ result.ok
        /\ result.value.type = "UnitValue"
        /\ result.value.uv.unit = base_unit_string(DimensionOf(expr.left))
        /\ evaluate(Binary("Add", expr.right, expr.left)) = EvalOk(result.value)

C13_Witness ==
    /\ Done
    /\ IsBinary(expr, {"Add"})
    /\ SameKnownFamily(expr)
    /\ evaluate(expr.left).value.uv.unit = "cm"
    /\ evaluate(expr.right).value.uv.unit = "m"
    /\ evaluate(expr.left).value.uv.value # evaluate(expr.right).value.uv.value
    /\ result.ok
    /\ IsExact(result.value.uv.value)

\* e holds a bare unit name elsewhere than as the right child of a Convert
\* (right tells whether e itself is the right child of a Convert)
RECURSIVE HasStrayUnit(_, _)
HasStrayUnit(e, right) ==
    CASE e.type = "Unit" -> ~right
      [] e.type = "Binary" ->
            HasStrayUnit(e.left, FALSE) \/ HasStrayUnit(e.right, e.op = "Convert")
      [] e.type = "Unary" -> HasStrayUnit(e.operand, FALSE)
      [] OTHER -> FALSE

\* C14: a tree with a bare unit name anywhere but as the right child of a
\* Convert (at the root, as an operand of an arithmetic operation or of a unary
\* minus, or as the left child of a Convert) ends in an error, never a Value.
C14_StrayUnitRejected ==
    (Done /\ HasStrayUnit(expr, FALSE)) => ~result.ok

C14_Witness ==
    /\ Done
    /\ IsBinary(expr, {"Convert"})
    /\ expr.left = EUnit("ft")
    /\ expr.right = EUnit("ft")
    /\ result = Failure("Evaluator", InvalidUnitExpression(LeftSideMessage))

IsConvert(e) == e.type = "Binary" /\ e.op = "Convert"

\* some Convert node of e has a Convert node as its left or right child
RECURSIVE HasNestedConvert(_)
HasNestedConvert(e) ==
    CASE e.type = "Binary" ->
            \/ IsConvert(e) /\ (IsConvert(e.left) \/ IsConvert(e.right))
            \/ HasNestedConvert(e.left)
            \/ HasNestedConvert(e.right)
      [] e.type = "Unary" -> HasNestedConvert(e.operand)
      [] OTHER -> FALSE

\* C15: in every tree the parser produces no Convert node has a Convert node
\* as its left or right child.
C15_ConvertNeverNests ==
    (pc \in {"eval", "done"} /\ expr # NoExpr) => ~HasNestedConvert(expr)

\* the raw numeric value e evaluates to
RawValue(e) ==
    IF Dimensioned(e) THEN evaluate(e).value.uv.value ELSE evaluate(e).value.n

\* the operation on two raw numeric values, in operand order
Applied(op, a, b) ==
    CASE op = "Add" -> RAdd(a, b)
      [] op = "Subtract" -> RSub(a, b)
      [] op = "Multiply" -> RMul(a, b)
      [] op = "Divide" -> RDiv(a, b)

\* the dimensioned one of the two operands of e
DimensionedOperand(e) ==
    IF Dimensioned(e.left) THEN evaluate(e.left).value.uv ELSE evaluate(e.right).value.uv

\* e is Add, Subtract or Multiply of a Dimensioned value and a Number in either
\* order, or a Dimensioned value divided by a non-zero Number
IsMixedArithmetic(e) ==
    /\ IsBinary(e, {"Add", "Subtract", "Multiply", "Divide"})
    /\ \/ Dimensioned(e.left) /\ PlainNumber(e.right)
       \/ PlainNumber(e.left) /\ Dimensioned(e.right) /\ e.op # "Divide"
    /\ e.op = "Divide" => ~IsZero(RawValue(e.right))

\* C16: arithmetic between a Dimensioned value and a Number gives a Dimensioned
\* value with exactly the unit string and dimension of the dimensioned operand
\* (no conversion to the base unit) and, as value, the operation applied to
\* the two raw numeric values in operand order.
C16_MixedKeepsUnit ==
    (Done /\ IsMixedArithmetic(expr)) =>
        result = Success(VUnitValue(
            [value |-> Applied(expr.op, RawValue(expr.left), RawValue(expr.right)),
             unit |-> DimensionedOperand(expr).unit,
             dimension |-> DimensionedOperand(expr).dimension]))

C16_Witness ==
    /\ Done
    /\ IsBinary(expr, {"Subtract"})
    /\ PlainNumber(expr.left)
    /\ Dimensioned(expr.right)
    /\ RawValue(expr.left) = FromInt(2)
    /\ RawValue(expr.right) = FromInt(100)
    /\ result.ok
    /\ result.value.uv = [value |-> FromInt(-98), unit |-> "cm", dimension |-> "Length"]

\* the value of v, given in the unit with abbreviation u, in the base unit of
\* its family: meters for lengths, kelvins for temperatures
InBase(v, u) ==
    CASE u = "m" -> v
      [] u = "cm" -> RDiv(v, FromInt(100))
      [] u = "mm" -> RDiv(v, FromInt(1000))
      [] u = "km" -> RMul(v, FromInt(1000))
      [] u = "ft" -> RMul(v, Rat(3048, 10000))
      [] u = "in" -> RMul(v, Rat(254, 10000))
      [] u = "yd" -> RMul(v, Rat(9144, 10000))
      [] u = "mi" -> RMul(v, Rat(1609344, 1000))
      [] u = "k" -> v
      [] u = "c" -> RAdd(v, Rat(27315, 100))
      [] u = "f" -> RAdd(RMul(RSub(v, FromInt(32)), Rat(5, 9)), Rat(27315, 100))

BaseUnitOf(family) == IF family = "Length" THEN "m" ELSE "K"

BaseOf(e) == InBase(evaluate(e).value.uv.value, to_lowercase(evaluate(e).value.uv.unit))

\* C17: Add and Subtract between two dimensioned values of the same known
\* family give a value tagged with the family's base unit ("m" for Length, "K"
\* for Temperature) whose value is the sum or difference of the operands after
\* each is converted to the base unit.
C17_SumInBaseUnit ==
    (Done /\ IsBinary(expr, {"Add", "Subtract"}) /\ SameKnownFamily(expr)) =>
        result = Success(VUnitValue(
            [value |-> Applied(expr.op, BaseOf(expr.left), BaseOf(expr.right)),
             unit |-> BaseUnitOf(DimensionOf(expr.left)),
             dimension |-> DimensionOf(expr.left)]))

\* 1m + 1m + 100cm gives 3 m
C17_Witness ==
    /\ Done
    /\ expr = Binary("Add",
                Binary("Add", EUnitValue(FromInt(1), "m"), EUnitValue(FromInt(1), "m")),
                EUnitValue(FromInt(100), "cm"))
    /\ result = Success(VUnitValue(
            [value |-> FromInt(3), unit |-> "m", dimension |-> "Length"]))

\* e is one of the operand combinations without a meaning: Multiply, Divide or
\* Power of two dimensioned values, Power with a dimensioned operand, a Number
\* divided by a dimensioned value, unary minus of a dimensioned value
IsUnsupportedCombination(e) ==
    \/ /\ IsBinary(e, {"Multiply", "Divide", "Power"})
       /\ Dimensioned(e.left)
       /\ Dimensioned(e.right)
    \/ /\ IsBinary(e, {"Power"})
       /\ \/ Dimensioned(e.left) /\ PlainNumber(e.right)
          \/ PlainNumber(e.left) /\ Dimensioned(e.right)
    \/ /\ IsBinary(e, {"Divide"})
       /\ PlainNumber(e.left)
       /\ Dimensioned(e.right)
    \/ /\ e.type = "Unary"
       /\ e.op = "Subtract"
       /\ Dimensioned(e.operand)

\* C18: Multiply, Divide or Power between two dimensioned values, Power with a
\* dimensioned operand, a Number divided by a dimensioned value and unary minus
\* of a dimensioned value evaluate to UnsupportedOperation, never to a Value.
C18_UnsupportedCombinations ==
    (Done /\ IsUnsupportedCombination(expr)) => Failed("Evaluator", "UnsupportedOperation")

C18_Witness ==
    /\ Done
    /\ expr.type = "Unary"
    /\ expr.op = "Subtract"
    /\ expr.operand.type = "Binary"
    /\ Dimensioned(expr.operand)
    /\ result = Failure("Evaluator", UnsupportedOperation("negate", "unit value"))

\* s is empty or made of whitespace only
OnlyWhitespace(s) == \A i \in 1..Len(s) : CharAt(s, i) = " "

\* C20: tokenize fails with EmptyInput for every input that is empty or all
\* whitespace; no token is produced and no other error is reported for it.
C20_BlankInputIsEmptyInput ==
    (Done /\ OnlyWhitespace(source)) =>
        /\ result = Failure("Lexer", EmptyInput)
        /\ tokens = <<>>
        /\ expr = NoExpr

C20_Witness ==
    /\ Done
    /\ Len(source) >= 2
    /\ OnlyWhitespace(source)
    /\ tokenize(source) = LexErr(EmptyInput)
    /\ result = Failure("Lexer", EmptyInput)

\* C19: when the lex, parse and evaluate steps of several callers interleave
\* in any order, each call ends with the result it returns when run alone, and
\* every stage of a call works on the output of that call's previous stage.
C19_CallsIndependent ==
    \A c \in Callers :
        /\ pc[c] = "done" => result[c] = evaluate_expression(source[c])
        /\ pc[c] = "parse" => tokenize(source[c]) = LexOk(tokens[c])
        /\ pc[c] = "eval" => expr[c] = parse(tokenize(source[c]).tokens).expr

\* the first caller is between its stages while the second one has finished
\* with a value, on a different source
C19_Witness ==
    /\ pc[1] = "eval"
    /\ pc[2] = "done"
    /\ source[1] # source[2]
    /\ tokens[1] # tokens[2]
    /\ result[2].ok
    /\ result[2] = evaluate_expression(source[2])

\* the canonical abbreviation of a unit
Abbreviation(u) ==
    CASE u = "Meter" -> "m"
      [] u = "Centimeter" -> "cm"
      [] u = "Millimeter" -> "mm"
      [] u = "Kilometer" -> "km"
      [] u = "Foot" -> "ft"
      [] u = "Inch" -> "in"
      [] u = "Yard" -> "yd"
      [] u = "Mile" -> "mi"
      [] u = "Celcius" -> "C"
      [] u = "Farenheit" -> "F"
      [] u = "Kelvin" -> "K"

FamilyOf(u) == IF u \in LengthUnits THEN "Length" ELSE "Temperature"

\* the unit a spelling of the vocabulary names
Named(spelling) == VocabularyUnit(to_lowercase(spelling))

\* C21: a successful conversion of a literal returns a dimensioned value
\* tagged with the canonical abbreviation of the target unit, whatever the
\* spelling of the target, and with the target's dimension; a conversion to
\* the unit the literal is already in returns its value unchanged.
C21_ConversionTaggedWithTarget ==
    (Done /\ IsLiteralConversion(tokens) /\ result.ok /\ InVocabulary(tokens[3].unit)) =>
        /\ result.value.type = "UnitValue"
        /\ result.value.uv.unit = Abbreviation(Named(tokens[3].unit))
        /\ result.value.uv.dimension = FamilyOf(Named(tokens[3].unit))
        /\ (InVocabulary(tokens[1].unit) /\ Named(tokens[1].unit) = Named(tokens[3].unit))
              => result.value.uv.value = tokens[1].value

C21_Witness ==
    /\ Done
    /\ source = "100cm to Meters"
    /\ result = Success(VUnitValue([value |-> FromInt(1), unit |-> "m", dimension |-> "Length"]))

C21_WitnessIdentity ==
    /\ Done
    /\ source = "10 feet to FT"
    /\ result = Success(VUnitValue([value |-> FromInt(10), unit |-> "ft", dimension |-> "Length"]))

UnitsOf(family) == IF family = "Length" THEN LengthUnits ELSE TemperatureUnits

AllAlphabetic(s) == \A i \in 1..Len(s) : is_alphabetic(CharAt(s, i))

\* C23: the unit spelling of every number-with-unit token and of every
\* identifier token the lexer produces consists of alphabetic characters only.
C23_UnitSpellingsAlphabetic ==
    \A i \in 1..Len(tokens) :
        tokens[i].type \in {"UnitValue", "Unit"} => AllAlphabetic(tokens[i].unit)

\* C24: parsing the canonical name of a unit returns the unit, and
\* canonicalizing a canonical string (the placeholder "unknown" included)
\* returns it unchanged with the dimension the spelling was classified in.
C24_CanonicalNamesReparse ==
    Done =>
        /\ result.length # UnitErr =>
              Length_parse_unit(Length_canonical_string(result.length)) = result.length
        /\ result.temperature # UnitErr =>
              Temperature_parse_unit(Temperature_canonical_string(result.temperature))
                  = result.temperature
        /\ canonicalize_unit(result.canonical) = result.canonical
        /\ DimensionType_from_unit(result.canonical) = result.dimension

C24_Witness ==
    /\ Done
    /\ source = "celcius"
    /\ result.temperature = "Celcius"
    /\ result.canonical = "C"
    /\ result.dimension = "Temperature"
    /\ canonicalize_unit("C") = "C"

AlphaNumeric(src, i) == i >= 1 /\ i <= Len(src) /\ is_alphanumeric(CharAt(src, i))

\* the index of the first character of the run of digits and dots ending at j
RECURSIVE NumberStart(_, _)
NumberStart(src, j) ==
    IF j >= 1 /\ CharAt(src, j) \in DigitChars \cup {"."} THEN NumberStart(src, j - 1) ELSE j + 1

\* the character at j is the last one of a number literal
EndsNumber(src, j) ==
    /\ j >= 1
    /\ CharAt(src, j) \in DigitChars \cup {"."}
    /\ ~AlphaNumeric(src, NumberStart(src, j) - 1)

\* the index of the last character before i that is not a space, or 0
RECURSIVE LastBefore(_, _)
LastBefore(src, i) ==
    IF i > 1 /\ CharAt(src, i - 1) = " " THEN LastBefore(src, i - 1) ELSE i - 1

\* the word "to", in any letter case, stands at i
WordToAt(src, i) ==
    /\ i + 1 <= Len(src)
    /\ to_lowercase(SubSeq(src, i, i + 1)) = "to"
    /\ ~AlphaNumeric(src, i + 2)
    /\ ~AlphaNumeric(src, i - 1) \/ EndsNumber(src, i - 1)

FollowsNumber(src, i) == EndsNumber(src, LastBefore(src, i))

ToAfterNumber(src) == {i \in 1..Len(src) : WordToAt(src, i) /\ FollowsNumber(src, i)}
ToElsewhere(src) == {i \in 1..Len(src) : WordToAt(src, i) /\ ~FollowsNumber(src, i)}

FusedTo(toks) ==
    {k \in 1..Len(toks) : toks[k].type = "UnitValue" /\ to_lowercase(toks[k].unit) = "to"}
ConvertTokens(toks) == {k \in 1..Len(toks) : toks[k] = TOperation("Convert")}

\* C25: the lexer fuses each word "to" that follows a number literal, with
\* only whitespace between them, into the number-with-unit token and emits a
\* Convert token for every other word "to" and for nothing else; "10 to m"
\* lexes to a number-with-unit and a unit name and fails in the parser on the
\* leftover token.
C25_ToAfterNumberIsFused ==
    (pc # "lex" /\ tokenize(source).ok) =>
        /\ Cardinality(FusedTo(tokens)) = Cardinality(ToAfterNumber(source))
        /\ Cardinality(ConvertTokens(tokens)) = Cardinality(ToElsewhere(source))
        /\ source = "10 to m" =>
              /\ tokens = <<TUnitValue(FromInt(10), "to"), TUnit("m")>>
              /\ Done => result = Failure("Parser",
                                          UnexpectedToken("end of input", TUnit("m"), 1))

C25_Witness ==
    /\ Done
    /\ source = "10 TO m"
    /\ ToAfterNumber(source) = {4}
    /\ tokens = <<TUnitValue(FromInt(10), "TO"), TUnit("m")>>
    /\ Failed("Parser", "UnexpectedToken")

\* the number of leading minus signs of a token vector
RECURSIVE LeadingMinuses(_)
LeadingMinuses(toks) ==
    IF toks # <<>> /\ Head(toks) = TOperation("Subtract")
    THEN 1 + LeadingMinuses(Tail(toks)) ELSE 0

\* the number of Unary nodes stacked at the root of e, and the node below them
RECURSIVE MinusDepth(_)
MinusDepth(e) == IF e.type = "Unary" THEN 1 + MinusDepth(e.operand) ELSE 0

RECURSIVE BelowMinuses(_)
BelowMinuses(e) == IF e.type = "Unary" THEN BelowMinuses(e.operand) ELSE e

\* the leftmost operand of the binary operators at the root of e
RECURSIVE LeftMost(_)
LeftMost(e) == IF e.type = "Binary" THEN LeftMost(e.left) ELSE e

IsLiteralToken(t) == t.type \in {"Number", "UnitValue", "Unit"}

\* C26: unary minus applies to the single primary that follows it: n leading
\* minus signs before a literal give n nested Unary nodes around that literal
\* alone, below every binary operator that follows, Power included; "-2^2" is
\* (-2)^2 and evaluates to 4.
C26_UnaryMinusBindsTightest ==
    (pc \in {"eval", "done"} /\ expr # NoExpr /\ LeadingMinuses(tokens) > 0
        /\ IsLiteralToken(tokens[LeadingMinuses(tokens) + 1])) =>
        /\ MinusDepth(LeftMost(expr)) = LeadingMinuses(tokens)
        /\ BelowMinuses(LeftMost(expr))
              = parse_primary(tokens, LeadingMinuses(tokens)).expr
        /\ Len(tokens) > LeadingMinuses(tokens) + 1 => expr.type = "Binary"
        /\ source = "-2^2" =>
              /\ expr = Binary("Power", Unary("Subtract", ENumber(FromInt(2))),
                               ENumber(FromInt(2)))
              /\ Done => result = Success(VNumber(FromInt(4)))
        /\ source = "---2" =>
              expr = Unary("Subtract", Unary("Subtract", Unary("Subtract",
                                                               ENumber(FromInt(2)))))

C26_Witness ==
    /\ Done
    /\ source = "- - 2^2"
    /\ MinusDepth(expr.left) = 2
    /\ expr.op = "Power"
    /\ result = Success(VNumber(FromInt(4)))

\* C27: during Parser::parse the cursor never decreases and never exceeds the
\* number of tokens; every call of parse_primary consumes a token or returns
\* an error, every pass of the operator loop consumes a token or returns; the
\* run ends, with the tree or the error of parse.
C27_ParseTerminates ==
    /\ [](pos \in 0..Len(tokens))
    /\ [][pos' >= pos]_vars
    /\ [][pc = "primary" => (pos' = pos + 1 \/ (pc' = "return" /\ ~result'.ok))]_vars
    /\ [][pc = "loop" => (pos' = pos + 1 \/ pc' = "return")]_vars
    /\ <>(pc = "done")
    /\ [](pc = "done" => result = parse(tokens) /\ pos = result.pos)

\* a run through a parenthesis, the operator loop and a unary minus
C27_Witness ==
    /\ pc = "done"
    /\ Len(tokens) = 7
    /\ pos = 7
    /\ result.ok
    /\ result.expr.type = "Binary"
    /\ result.expr.left.type = "Binary"
    /\ tokens[1] = Lparen

\* the dimension tag of uv agrees with the classification of its unit string
TagAgrees(uv) ==
    /\ uv.dimension = DimensionType_from_unit(uv.unit)
    /\ uv.dimension = "Unknown" <=>
          (Length_parse_unit(uv.unit) = UnitErr /\ Temperature_parse_unit(uv.unit) = UnitErr)

\* C28: every UnitValue the evaluator returns, built by UnitValue::new,
\* convert_to, in_base_units and the arithmetic operators, carries the
\* dimension DimensionType::from_unit gives for its unit string, which is
\* Unknown exactly when no family recognizes the string.
C28_DimensionTagAgrees ==
    (Done /\ result.ok /\ result.value.type = "UnitValue") => TagAgrees(result.value.uv)

\* (100cm - 1m) * 2: in_base_units and convert_to, then Mul<Number>
C28_Witness ==
    /\ Done
    /\ IsBinary(expr, {"Multiply"})
    /\ IsBinary(expr.left, {"Subtract"})
    /\ expr.left.left = EUnitValue(FromInt(100), "cm")
    /\ Dimensioned(expr.left.right)
    /\ PlainNumber(expr.right)
    /\ result.ok
    /\ result.value.uv.unit = "m"
    /\ result.value.uv.dimension = "Length"

C28_WitnessUnknown ==
    /\ Done
    /\ result.ok
    /\ result.value.type = "UnitValue"
    /\ result.value.uv.dimension = "Unknown"
    /\ IsBinary(expr, {"Add"})

\* C29: for a Binary node whose operator is not Convert the error of the left
\* child is returned whatever the right child does, the error of the right
\* child is returned when only it fails, and UnsupportedOperation and
\* DivisionByZero of the node itself arise only when both children succeeded.
C29_LeftErrorFirst ==
    (Done /\ IsBinary(expr, Operations \ {"Convert"})) =>
        IF ~evaluate(expr.left).ok
        THEN result = Failure("Evaluator", evaluate(expr.left).err)
        ELSE IF ~evaluate(expr.right).ok
        THEN result = Failure("Evaluator", evaluate(expr.right).err)
        ELSE result.ok \/ (result.stage = "Evaluator"
                           /\ result.err.kind \in {"UnsupportedOperation", "DivisionByZero"})

\* both children fail, with different errors
C29_Witness ==
    /\ Done
    /\ IsBinary(expr, {"Power"})
    /\ IsBinary(expr.left, {"Divide"})
    /\ expr.right.type = "Unit"
    /\ ~evaluate(expr.right).ok
    /\ evaluate(expr.right).err.kind = "InvalidUnitExpression"
    /\ result = Failure("Evaluator", DivisionByZero)

\* C30: a successful tokenize returns at least one token, so no run of the
\* pipeline ends with the parser's EmptyTokenStream.
C30_TokensNeverEmpty ==
    /\ (pc # "lex" /\ tokenize(source).ok) => Len(tokens) >= 1
    /\ Done => ~Failed("Parser", "EmptyTokenStream")

\* one character between spaces gives one token
C30_Witness ==
    /\ Done
    /\ source = " 2 "
    /\ tokens = <<TNumber(FromInt(2))>>
    /\ result.ok

====
